---- MODULE Spec2Model ----
(***************************************************************************)
(* Smart Room Controller (src/project1.c): a line reader on UART1, a       *)
(* command matcher over six literals, and a renderer onto PB0..PB2 and a   *)
(* character LCD, run by one sequential loop in main.                      *)
(*                                                                         *)
(* A byte is a one-character string; NUL is the byte 0.  A C string is the *)
(* sequence of bytes before the first NUL of its buffer.                   *)
(***************************************************************************)
EXTENDS Integers, Sequences, FiniteSets

VARIABLES light1, fan, ac,      \* the three flags (lines 32-34)
          cmd,                  \* char cmd[20]: a function on 0..BufSize-1
          i, tmp,               \* main's locals
          pc,                   \* main's position
          PB0, PB1, PB2,        \* GPIOB_ODR bits 0..2
          lcd,                  \* the display: <<row 1, row 2>>, a row is its characters from column 1
          rx, nsent,            \* UART1: bytes waiting to be read; fragments sent so far
          rd, tx,               \* history: bytes UART1_Read returned; bytes UART1_Write was given
          lineStart,            \* history: Len(rd) when the current line began
          wr,                   \* history: the indices of cmd written by the line reader
          parsed,               \* history: the lines handed to ParseCommand
          pre,                  \* history: flags, pins and display before the last ParseCommand
          ev                    \* history: "P" per ParseCommand call, "R" per UpdateOutputsAndLCD call

vars == <<light1, fan, ac, cmd, i, tmp, pc, PB0, PB1, PB2, lcd, rx, nsent,
          rd, tx, lineStart, wr, parsed, pre, ev>>

\* ---------------------------------------------------------------- bytes

NUL == ""
CR == "\r"
LF == "\n"

LIGHT1_ON == <<"L","I","G","H","T","1"," ","O","N">>
LIGHT1_OFF == <<"L","I","G","H","T","1"," ","O","F","F">>
FAN_ON == <<"F","A","N"," ","O","N">>
FAN_OFF == <<"F","A","N"," ","O","F","F">>
AC_ON == <<"A","C"," ","O","N">>
AC_OFF == <<"A","C"," ","O","F","F">>

SmartRoomCtrl == <<"S","m","a","r","t"," ","R","o","o","m"," ","C","t","r","l">>
SystemReady == <<"S","y","s","t","e","m"," ","R","e","a","d","y",".",".",".">>
UnknownCmd == <<"U","n","k","n","o","w","n"," ","C","m","d",":">>
L1Label == <<"L","1",":">>
FLabel == <<"F",":">>
ACLabel == <<"A","C",":">>
OnText == <<"O","N"," ">>
OffText == <<"O","F","F">>

\* ---------------------------------------------------------------- bounds

\* The number of fragments the sender puts on the serial line in one run.
MaxChunks == 4

\* What the sender may put on the line at once: a command literal, a
\* terminator, a byte that belongs to no literal, or a zero byte.
Fragments ==
    { LIGHT1_ON, LIGHT1_OFF, FAN_ON, FAN_OFF, AC_ON, AC_OFF,
      <<CR>>, <<LF>>, <<"X">>, <<NUL>> }

\* ---------------------------------------------------------------- program constants

\* char cmd[20]
BufSize == 20

\* The loop test written against the whole buffer: while(i < 20).
BufLimitWholeBuffer == BufSize

\* while(i < 19)
BufLimit == 19

\* ---------------------------------------------------------------- C strings

Min(S) == CHOOSE m \in S : \A n \in S : m <= n

\* The C string held in buf: the bytes before its first NUL.
CStr(buf) ==
    LET nuls == { k \in DOMAIN buf : buf[k] = NUL }
        n == IF nuls = {} THEN BufSize ELSE Min(nuls)
    IN  [k \in 1..n |-> buf[k - 1]]

\* strstr(hay, needle): the position (from 1) of the first occurrence of
\* needle in hay, 0 (the null pointer) when there is none.
StrStr(hay, needle) ==
    LET at == { k \in 1..(Len(hay) - Len(needle) + 1) :
                    SubSeq(hay, k, k + Len(needle) - 1) = needle }
    IN  IF at = {} THEN 0 ELSE Min(at)

\* memset(cmd, 0, 20)
MemsetZero == [k \in 0..(BufSize - 1) |-> NUL]

\* cmd[k] = b.  A store outside the array is recorded in wr and leaves the
\* array as it is.
Store(buf, k, b) == IF k \in DOMAIN buf THEN [buf EXCEPT ![k] = b] ELSE buf

\* ---------------------------------------------------------------- LCD

LcdClear == << <<>>, <<>> >>

Max2(a, b) == IF a >= b THEN a ELSE b

\* Lcd_Out(row, col, text) on display d: text overwrites the row from col on.
Lcd_Out(d, row, col, text) ==
    LET old == d[row]
        n == Max2(Len(old), col + Len(text) - 1)
        new == [k \in 1..n |->
                  IF k >= col /\ k < col + Len(text) THEN text[k - col + 1]
                  ELSE IF k <= Len(old) THEN old[k] ELSE " "]
    IN  [d EXCEPT ![row] = new]

\* ---------------------------------------------------------------- ParseCommand

Flags(l, f, a, d) == [light1 |-> l, fan |-> f, ac |-> a, lcd |-> d]

\* The else branch: clear, "Unknown Cmd:" on row 1, cmd on row 2.
UnknownScreen(c) ==
    Lcd_Out(Lcd_Out(LcdClear, 1, 1, UnknownCmd), 2, 1, CStr(c))

\* ParseCommand with the FAN OFF branch setting the flag instead of clearing it.
ParseCommandFanOffSets(c, l, f, a, d) ==
    IF      StrStr(CStr(c), LIGHT1_ON)  # 0 THEN Flags(1, f, a, d)
    ELSE IF StrStr(CStr(c), LIGHT1_OFF) # 0 THEN Flags(0, f, a, d)
    ELSE IF StrStr(CStr(c), FAN_ON)     # 0 THEN Flags(l, 1, a, d)
    ELSE IF StrStr(CStr(c), FAN_OFF)    # 0 THEN Flags(l, 1, a, d)
    ELSE IF StrStr(CStr(c), AC_ON)      # 0 THEN Flags(l, f, 1, d)
    ELSE IF StrStr(CStr(c), AC_OFF)     # 0 THEN Flags(l, f, 0, d)
    ELSE Flags(l, f, a, UnknownScreen(c))

\* ParseCommand with the AC tests ahead of the FAN tests.
ParseCommandAcFirst(c, l, f, a, d) ==
    IF      StrStr(CStr(c), LIGHT1_ON)  # 0 THEN Flags(1, f, a, d)
    ELSE IF StrStr(CStr(c), LIGHT1_OFF) # 0 THEN Flags(0, f, a, d)
    ELSE IF StrStr(CStr(c), AC_ON)      # 0 THEN Flags(l, f, 1, d)
    ELSE IF StrStr(CStr(c), AC_OFF)     # 0 THEN Flags(l, f, 0, d)
    ELSE IF StrStr(CStr(c), FAN_ON)     # 0 THEN Flags(l, 1, a, d)
    ELSE IF StrStr(CStr(c), FAN_OFF)    # 0 THEN Flags(l, 0, a, d)
    ELSE Flags(l, f, a, UnknownScreen(c))

\* ParseCommand with the three devices tested one after the other (the
\* "else" between devices lost): a line may set a flag per device.
ParseCommandNoElse(c, l, f, a, d) ==
    LET l2 == IF      StrStr(CStr(c), LIGHT1_ON)  # 0 THEN 1
              ELSE IF StrStr(CStr(c), LIGHT1_OFF) # 0 THEN 0 ELSE l
        f2 == IF      StrStr(CStr(c), FAN_ON)     # 0 THEN 1
              ELSE IF StrStr(CStr(c), FAN_OFF)    # 0 THEN 0 ELSE f
        a2 == IF      StrStr(CStr(c), AC_ON)      # 0 THEN 1
              ELSE IF StrStr(CStr(c), AC_OFF)     # 0 THEN 0 ELSE a
        any == \E n \in 1..6 :
                 StrStr(CStr(c), <<LIGHT1_ON, LIGHT1_OFF, FAN_ON, FAN_OFF, AC_ON, AC_OFF>>[n]) # 0
    IN  Flags(l2, f2, a2, IF any THEN d ELSE UnknownScreen(c))

\* ParseCommand with the else branch not printing cmd on row 2.
ParseCommandNoText(c, l, f, a, d) ==
    IF      StrStr(CStr(c), LIGHT1_ON)  # 0 THEN Flags(1, f, a, d)
    ELSE IF StrStr(CStr(c), LIGHT1_OFF) # 0 THEN Flags(0, f, a, d)
    ELSE IF StrStr(CStr(c), FAN_ON)     # 0 THEN Flags(l, 1, a, d)
    ELSE IF StrStr(CStr(c), FAN_OFF)    # 0 THEN Flags(l, 0, a, d)
    ELSE IF StrStr(CStr(c), AC_ON)      # 0 THEN Flags(l, f, 1, d)
    ELSE IF StrStr(CStr(c), AC_OFF)     # 0 THEN Flags(l, f, 0, d)
    ELSE Flags(l, f, a, Lcd_Out(LcdClear, 1, 1, UnknownCmd))

\* ParseCommand() on buffer c with flags l, f, a and display d: the flags
\* and the display it leaves.
ParseCommand(c, l, f, a, d) ==
    IF      StrStr(CStr(c), LIGHT1_ON)  # 0 THEN Flags(1, f, a, d)
    ELSE IF StrStr(CStr(c), LIGHT1_OFF) # 0 THEN Flags(0, f, a, d)
    ELSE IF StrStr(CStr(c), FAN_ON)     # 0 THEN Flags(l, 1, a, d)
    ELSE IF StrStr(CStr(c), FAN_OFF)    # 0 THEN Flags(l, 0, a, d)
    ELSE IF StrStr(CStr(c), AC_ON)      # 0 THEN Flags(l, f, 1, d)
    ELSE IF StrStr(CStr(c), AC_OFF)     # 0 THEN Flags(l, f, 0, d)
    ELSE Flags(l, f, a, UnknownScreen(c))

\* ---------------------------------------------------------------- UpdateOutputsAndLCD

\* UpdateOutputsAndLCD with PB1 driven from light1 instead of fan.
UpdateOutputsAndLCDWrongPin(l, f, a) ==
    LET d0 == LcdClear
        d1 == Lcd_Out(d0, 1, 1, L1Label)
        d2 == IF l # 0 THEN Lcd_Out(d1, 1, 4, OnText) ELSE Lcd_Out(d1, 1, 4, OffText)
        d3 == Lcd_Out(d2, 1, 9, FLabel)
        d4 == IF f # 0 THEN Lcd_Out(d3, 1, 11, OnText) ELSE Lcd_Out(d3, 1, 11, OffText)
        d5 == Lcd_Out(d4, 2, 1, ACLabel)
        d6 == IF a # 0 THEN Lcd_Out(d5, 2, 4, OnText) ELSE Lcd_Out(d5, 2, 4, OffText)
    IN  [PB0 |-> l, PB1 |-> l, PB2 |-> a, lcd |-> d6]

\* The pins and the display UpdateOutputsAndLCD() leaves for flags l, f, a.
UpdateOutputsAndLCD(l, f, a) ==
    LET d0 == LcdClear
        d1 == Lcd_Out(d0, 1, 1, L1Label)
        d2 == IF l # 0 THEN Lcd_Out(d1, 1, 4, OnText) ELSE Lcd_Out(d1, 1, 4, OffText)
        d3 == Lcd_Out(d2, 1, 9, FLabel)
        d4 == IF f # 0 THEN Lcd_Out(d3, 1, 11, OnText) ELSE Lcd_Out(d3, 1, 11, OffText)
        d5 == Lcd_Out(d4, 2, 1, ACLabel)
        d6 == IF a # 0 THEN Lcd_Out(d5, 2, 4, OnText) ELSE Lcd_Out(d5, 2, 4, OffText)
    IN  [PB0 |-> l, PB1 |-> f, PB2 |-> a, lcd |-> d6]

\* ---------------------------------------------------------------- UART1

\* The echo placed after the terminator test: a terminator is not echoed.
UART1_WriteSkipsTerminator(out, b) == IF b = CR \/ b = LF THEN out ELSE Append(out, b)

\* UART1_Write(b): b goes out on the line after what was written before.
UART1_Write(out, b) == Append(out, b)

\* ---------------------------------------------------------------- main

\* if (i >= 0)
NonEmptyOrEmpty(n) == n >= 0

\* if (i > 0)
NonEmpty(n) == n > 0

\* The state at line 64: flags 0, pins driven low by Config_GPIO_System,
\* the start-up screen on the display, nothing received.
Init ==
    /\ light1 = 0 /\ fan = 0 /\ ac = 0
    /\ cmd = MemsetZero
    /\ i = 0 /\ tmp = NUL
    /\ pc = "start"
    /\ PB0 = 0 /\ PB1 = 0 /\ PB2 = 0
    /\ lcd = Lcd_Out(Lcd_Out(LcdClear, 1, 1, SmartRoomCtrl), 2, 1, SystemReady)
    /\ rx = <<>> /\ nsent = 0
    /\ rd = <<>> /\ tx = <<>>
    /\ lineStart = 0
    /\ wr = {}
    /\ parsed = <<>>
    /\ pre = [light1 |-> 0, fan |-> 0, ac |-> 0, PB0 |-> 0, PB1 |-> 0, PB2 |-> 0]
    /\ ev = <<>>

\* The render with its first assignment reversed: light1 = GPIOB_ODR.B0.
RenderReversed ==
    /\ pc \in {"start", "render"}
    /\ LET r == UpdateOutputsAndLCD(PB0, fan, ac)
       IN  /\ light1' = PB0 /\ PB1' = r.PB1 /\ PB2' = r.PB2
           /\ lcd' = r.lcd
    /\ ev' = Append(ev, "R")
    /\ pc' = "top"
    /\ UNCHANGED <<PB0, fan, ac, cmd, i, tmp, rx, nsent, rd, tx, lineStart, wr, parsed, pre>>

\* The render of line 64 (at "start") and of line 94 (at "render").
Render ==
    /\ pc \in {"start", "render"}
    /\ LET r == UpdateOutputsAndLCD(light1, fan, ac)
       IN  /\ PB0' = r.PB0 /\ PB1' = r.PB1 /\ PB2' = r.PB2
           /\ lcd' = r.lcd
    /\ ev' = Append(ev, "R")
    /\ pc' = "top"
    /\ UNCHANGED <<light1, fan, ac, cmd, i, tmp, rx, nsent, rd, tx, lineStart, wr, parsed, pre>>

\* Lines 69-72: i = 0, the buffer cleared, the inner loop entered.
LoopTop ==
    /\ pc = "top"
    /\ i' = 0
    /\ cmd' = MemsetZero
    /\ lineStart' = Len(rd)
    /\ wr' = {}
    /\ pc' = IF 0 < BufLimit THEN "wait" ELSE "term"
    /\ UNCHANGED <<light1, fan, ac, tmp, PB0, PB1, PB2, lcd, rx, nsent, rd, tx, parsed, pre, ev>>

\* The sender puts a fragment on the line while the program waits at line 74.
Send ==
    /\ pc = "wait"
    /\ rx = <<>>
    /\ nsent < MaxChunks
    /\ \E f \in Fragments : rx' = f
    /\ nsent' = nsent + 1
    /\ UNCHANGED <<light1, fan, ac, cmd, i, tmp, pc, PB0, PB1, PB2, lcd, rd, tx, lineStart, wr, parsed, pre, ev>>

\* Lines 74-76: the wait ends when a byte is ready; tmp = UART1_Read().
ReadByte ==
    /\ pc = "wait"
    /\ rx # <<>>
    /\ tmp' = Head(rx)
    /\ rx' = Tail(rx)
    /\ rd' = Append(rd, Head(rx))
    /\ pc' = "echo"
    /\ UNCHANGED <<light1, fan, ac, cmd, i, PB0, PB1, PB2, lcd, nsent, tx, lineStart, wr, parsed, pre, ev>>

\* Lines 79-84: the byte is echoed; a terminator leaves the inner loop.
EchoBreak ==
    /\ pc = "echo"
    /\ tx' = UART1_Write(tx, tmp)
    /\ tmp = CR \/ tmp = LF
    /\ pc' = "term"
    /\ UNCHANGED <<light1, fan, ac, cmd, i, tmp, PB0, PB1, PB2, lcd, rx, nsent, rd, lineStart, wr, parsed, pre, ev>>

\* Lines 79-87 and the loop test of line 72: the byte is echoed and, not
\* being a terminator, stored; i advances.
EchoStore ==
    /\ pc = "echo"
    /\ tx' = UART1_Write(tx, tmp)
    /\ ~(tmp = CR \/ tmp = LF)
    /\ cmd' = Store(cmd, i, tmp)
    /\ wr' = wr \cup {i}
    /\ i' = i + 1
    /\ pc' = IF i + 1 < BufLimit THEN "wait" ELSE "term"
    /\ UNCHANGED <<light1, fan, ac, tmp, PB0, PB1, PB2, lcd, rx, nsent, rd, lineStart, parsed, pre, ev>>

\* UpdateOutputsAndLCD() called outside the if of line 92: an empty line is
\* not parsed but is rendered.
TerminateRendersAlways ==
    /\ pc = "term"
    /\ cmd' = Store(cmd, i, NUL)
    /\ wr' = wr \cup {i}
    /\ pc' = IF NonEmpty(i) THEN "parse" ELSE "render"
    /\ UNCHANGED <<light1, fan, ac, i, tmp, PB0, PB1, PB2, lcd, rx, nsent, rd, tx, lineStart, parsed, pre, ev>>

\* Lines 89-92: cmd[i] = 0, then the test that skips an empty line.
Terminate ==
    /\ pc = "term"
    /\ cmd' = Store(cmd, i, NUL)
    /\ wr' = wr \cup {i}
    /\ pc' = IF NonEmpty(i) THEN "parse" ELSE "top"
    /\ UNCHANGED <<light1, fan, ac, i, tmp, PB0, PB1, PB2, lcd, rx, nsent, rd, tx, lineStart, parsed, pre, ev>>

\* Line 93: ParseCommand().
Parse ==
    /\ pc = "parse"
    /\ LET r == ParseCommand(cmd, light1, fan, ac, lcd)
       IN  /\ light1' = r.light1 /\ fan' = r.fan /\ ac' = r.ac
           /\ lcd' = r.lcd
    /\ pre' = [light1 |-> light1, fan |-> fan, ac |-> ac,
               PB0 |-> PB0, PB1 |-> PB1, PB2 |-> PB2]
    /\ parsed' = Append(parsed, [k \in 1..i |-> cmd[k - 1]])
    /\ ev' = Append(ev, "P")
    /\ pc' = "render"
    /\ UNCHANGED <<cmd, i, tmp, PB0, PB1, PB2, rx, nsent, rd, tx, lineStart, wr>>

Next ==
    \/ Render
    \/ LoopTop
    \/ Send
    \/ ReadByte
    \/ EchoBreak
    \/ EchoStore
    \/ Terminate
    \/ Parse

Spec == Init /\ [][Next]_vars

\* ================================================================ reference definitions

Flag3 == <<light1, fan, ac>>
Pins3 == <<PB0, PB1, PB2>>

\* The program is at the inner loop: waiting for a byte or handling one.
Reading == pc \in {"wait", "echo"}

IsTerminator(b) == b = CR \/ b = LF

Literals == <<LIGHT1_ON, LIGHT1_OFF, FAN_ON, FAN_OFF, AC_ON, AC_OFF>>

\* lit occurs somewhere in s.
Occurs(lit, s) ==
    \E k \in 1..Len(s) : k + Len(lit) - 1 <= Len(s) /\ \A j \in 1..Len(lit) : s[k + j - 1] = lit[j]

\* The first literal from the n-th on, in the fixed order, that occurs in s;
\* 0 when none does.
RECURSIVE RefMatchFrom(_, _)
RefMatchFrom(n, s) ==
    IF n > Len(Literals) THEN 0
    ELSE IF Occurs(Literals[n], s) THEN n
    ELSE RefMatchFrom(n + 1, s)

\* The first literal, in the fixed order, that occurs in s; 0 when none does.
RefMatch(s) == RefMatchFrom(1, s)

\* The flags after literal n alone is applied to flags fl (n = 0: none).
RefApply(n, fl) ==
    IF n = 0 THEN fl
    ELSE [fl EXCEPT ![(n + 1) \div 2] = n % 2]

\* s up to its first zero byte.
UpToNul(s) ==
    IF \E k \in 1..Len(s) : s[k] = NUL
    THEN SubSeq(s, 1, (CHOOSE k \in 1..Len(s) : s[k] = NUL /\ \A j \in 1..(k - 1) : s[j] # NUL) - 1)
    ELSE s

\* The flags as they were before the last ParseCommand.
PreFlag3 == <<pre.light1, pre.fan, pre.ac>>

\* The display UpdateOutputsAndLCD is to leave for flags fl.
OnOff(v) == IF v # 0 THEN <<"O","N"," ">> ELSE <<"O","F","F">>
RefScreen(fl) ==
    << <<"L","1",":">> \o OnOff(fl[1]) \o <<" "," ">> \o <<"F",":">> \o OnOff(fl[2]),
       <<"A","C",":">> \o OnOff(fl[3]) >>

\* The lines of byte stream s: a line ends at a terminator (not part of it)
\* or when it holds BufSize - 1 bytes.  done: the lines ended, in order;
\* cur: the bytes of the line still open.
RECURSIVE RefLines(_)
RefLines(s) ==
    IF s = <<>> THEN [done |-> <<>>, cur |-> <<>>]
    ELSE LET r == RefLines(SubSeq(s, 1, Len(s) - 1))
             b == s[Len(s)]
         IN  IF IsTerminator(b) THEN [done |-> Append(r.done, r.cur), cur |-> <<>>]
             ELSE IF Len(r.cur) + 1 = BufSize - 1
                  THEN [done |-> Append(r.done, Append(r.cur, b)), cur |-> <<>>]
                  ELSE [done |-> r.done, cur |-> Append(r.cur, b)]

NonEmptyLine(l) == l # <<>>

\* What each parsed line matched, up to its first zero byte: literal n, or 0.
ParsedKinds == [k \in 1..Len(parsed) |-> RefMatch(UpToNul(parsed[k]))]

\* For the matches kinds and the device with literals 2*dev-1 (ON) and
\* 2*dev (OFF): 1 if the last match of a command of the device was its ON
\* command, 0 if it was its OFF command or there is none.
LastMatched(kinds, dev) ==
    LET ks == { k \in 1..Len(kinds) : kinds[k] \in {2 * dev - 1, 2 * dev} }
    IN  IF ks = {} THEN 0
        ELSE LET k == CHOOSE m \in ks : \A n \in ks : n <= m
             IN  IF kinds[k] = 2 * dev - 1 THEN 1 ELSE 0

\* ================================================================ claims

\* The line last handed to ParseCommand.
LastLine == parsed[Len(parsed)]

\* C1: whenever the main loop waits for the first byte of a new line, each
\* flag is 1 if the last parsed line that matched a command of its device
\* matched the ON command, and 0 if it matched the OFF command or if no line
\* matched a command of that device since startup.
C1_FlagsReflectLastMatched ==
    (pc = "wait" /\ i = 0) =>
        LET kinds == ParsedKinds
        IN  /\ light1 = LastMatched(kinds, 1)
            /\ fan = LastMatched(kinds, 2)
            /\ ac = LastMatched(kinds, 3)

\* A flag switched on by one line and off by a later one, the loop waiting again.
C1_Witness ==
    /\ pc = "wait" /\ i = 0
    /\ Len(parsed) = 2
    /\ RefMatch(parsed[1]) = 1 /\ RefMatch(parsed[2]) = 2
    /\ light1 = 0

\* C2: the flags are 0 at startup, and every step other than ParseCommand
\* (the reader's steps, the empty-line skip, UpdateOutputsAndLCD) leaves the
\* three flags as they are.
C2_FlagsOnlyByMatcher ==
    /\ light1 = 0 /\ fan = 0 /\ ac = 0
    /\ [][pc # "parse" => Flag3' = Flag3]_vars

\* A flag is set, a render has run on it and an empty line has been skipped since.
C2_Witness ==
    /\ pc = "top" /\ i = 0 /\ IsTerminator(tmp)
    /\ fan = 1
    /\ Len(ev) = 3

\* C3: i stays in 0..19, every store to cmd is inside the buffer, and when
\* the line is handed to the parser cmd holds, from index 0, exactly the
\* bytes read since the previous line ended, the terminator left out, and a
\* NUL at index i.
C3_LineReader ==
    /\ i \in 0..(BufSize - 1)
    /\ wr \subseteq 0..(BufSize - 1)
    /\ pc = "parse" =>
          LET recv == SubSeq(rd, lineStart + 1, Len(rd))
              body == IF recv # <<>> /\ IsTerminator(recv[Len(recv)])
                      THEN SubSeq(recv, 1, Len(recv) - 1) ELSE recv
          IN  /\ i = Len(body)
              /\ \A k \in 1..Len(body) : cmd[k - 1] = body[k] /\ ~IsTerminator(body[k])
              /\ cmd[i] = NUL

\* A line that filled the buffer is handed to the parser.
C3_Witness == pc = "parse" /\ i = BufSize - 1 /\ ~IsTerminator(tmp)

\* C4 as stated: ParseCommand leaves the flags that the first literal, in the
\* fixed order, occurring anywhere in the line gives, and changes nothing
\* else of them.
C4_Original ==
    pc = "render" => Flag3 = RefApply(RefMatch(LastLine), PreFlag3)

\* C4 amended: ParseCommand leaves the flags that the first literal, in the
\* fixed order, occurring in the line before its first zero byte gives, and
\* changes nothing else of them.
C4_MatcherUpToNul ==
    pc = "render" => Flag3 = RefApply(RefMatch(UpToNul(LastLine)), PreFlag3)

\* A line with text before the commands and two literals, the one later in
\* the line being the earlier in the fixed order.
C4_Witness ==
    /\ pc = "render"
    /\ LastLine = <<"X">> \o AC_ON \o FAN_OFF

\* C5: a call of ParseCommand changes at most one flag, and a line that
\* matches a command of one device leaves the other two flags as they were.
C5_AtMostOneFlag ==
    pc = "render" =>
        /\ Cardinality({ dev \in 1..3 : Flag3[dev] # PreFlag3[dev] }) <= 1
        /\ \A dev \in 1..3 :
              (RefMatch(UpToNul(LastLine)) + 1) \div 2 = dev =>
                  \A o \in 1..3 \ {dev} : Flag3[o] = PreFlag3[o]

\* A line holding commands of two devices has changed one flag.
C5_Witness ==
    /\ pc = "render"
    /\ Occurs(FAN_ON, LastLine) /\ Occurs(AC_ON, LastLine)
    /\ fan = 1 /\ pre.fan = 0 /\ ac = 0

\* C6: after UpdateOutputsAndLCD, and while the loop waits for or reads
\* bytes, PB0, PB1, PB2 equal light1, fan, ac, row 1 reads "L1:" and "F:" and
\* row 2 "AC:", each followed by "ON " when its flag is non-zero and "OFF"
\* when it is zero.
C6_Rendered ==
    pc \notin {"start", "parse", "render"} =>
        /\ Pins3 = Flag3
        /\ lcd = RefScreen(Flag3)

\* The loop is reading with one flag on and the others off.
C6_Witness == pc = "echo" /\ Flag3 = <<0, 0, 1>> /\ Len(ev) = 3

\* C7: calls alternate render, parse, render, ..., starting with the render
\* of startup; while the loop reads bytes every parse has been followed by
\* its render, and when it is about to read the first byte of a line the
\* lines parsed are exactly the non-empty lines ended so far, each once and
\* in order.
C7_ReadParseRender ==
    /\ \A k \in 1..Len(ev) : ev[k] = IF k % 2 = 1 THEN "R" ELSE "P"
    /\ Reading => Len(ev) = 2 * Len(parsed) + 1
    /\ (pc = "wait" /\ i = 0) => parsed = SelectSeq(RefLines(rd).done, NonEmptyLine)

\* Two lines have been read, parsed and rendered, and the loop reads on.
C7_Witness ==
    /\ pc = "wait"
    /\ Len(parsed) = 2
    /\ ev = <<"R", "P", "R", "P", "R">>

\* C8: the bytes written by the echo are the bytes read, in order; only
\* between a read and its echo is the byte just read still to be written.
C8_Echo ==
    IF pc = "echo" THEN rd = Append(tx, tmp) ELSE tx = rd

\* A terminator and the byte that filled the buffer have been echoed.
C8_Witness ==
    /\ pc = "wait"
    /\ Len(tx) = BufSize
    /\ tx[BufSize] = CR

\* The bytes of s other than zero bytes.
NotNul(b) == b # NUL

C10_EmptyLineSkipped ==
    /\ [](\A k \in 1..Len(parsed) : parsed[k] # <<>>)
    /\ []((pc = "wait" /\ i = 0) => Len(parsed) = Len(SelectSeq(RefLines(rd).done, NonEmptyLine)))
    /\ [][(pc = "term" /\ i = 0) =>
            /\ pc' = "top"
            /\ UNCHANGED <<light1, fan, ac, PB0, PB1, PB2, lcd, ev, parsed>>]_vars

\* A command ended by CR LF: parsed once, rendered once, the LF skipped.
C10_Witness ==
    /\ pc = "top" /\ i = 0 /\ tmp = LF
    /\ rd = FAN_ON \o <<CR, LF>>
    /\ parsed = <<FAN_ON>>
    /\ ev = <<"R", "P", "R">>
    /\ fan = 1

====
